---- MODULE Spec2Model ----
(***************************************************************************)
(* Cursor pagination and resource-type filtering of captured network       *)
(* requests: src/src/utils/pagination.ts (paginate, filterNetworkRequests, *)
(* paginateNetworkRequests) and the older unfiltered paginateNetworkRequests*)
(* of src/unnamed/part_000.                                                *)
(*                                                                         *)
(* Strings are sequences of one-character strings.  A JavaScript number is *)
(* [int |-> k, half |-> b], the value k + (IF b THEN 1/2 ELSE 0), so that  *)
(* non-integer page sizes exist; offsets and lengths are plain integers.   *)
(* The value -0 that parseInt("-0") yields is modelled as 0: slice, max,   *)
(* the comparisons and String treat the two alike.                         *)
(***************************************************************************)
EXTENDS Integers, Sequences, FiniteSets, TLC

VARIABLES
    requests,   \* the collection the session collaborator owns (getNetworkRequests)
    pc,         \* "idle" | "returned" | "filtered" | "sanitized" | "held" | "replayed" | "chain" | "forward" | "back"
    call,       \* the last call: [fn, options]
    result,     \* what the last call returned
    held,       \* a token a caller kept from a result, with the filter it came from
    chain,      \* a caller following nextPageToken with a fixed pageSize
    trip,       \* the page a caller left by nextPageToken, to come back to
    locked,     \* toolMutex: a guard is out
    acquirers,  \* toolMutex: the invocations waiting for the guard, in order
    tpc,        \* the position of each tool invocation in the registerTool callback
    outcome,    \* how each tool invocation ended
    acquires,   \* guards each tool invocation was given
    disposes    \* guards each tool invocation disposed

\* the state of the pagination callers
listVars == <<requests, pc, call, result, held, chain, trip>>

\* the state of toolMutex and of the tool invocations
toolVars == <<locked, acquirers, tpc, outcome, acquires, disposes>>

vars == <<listVars, toolVars>>

-----------------------------------------------------------------------------
(* Bounds of the model *)

\* records the session captures one at a time, before one burst of
\* DEFAULT_PAGE_SIZE records
MaxSmall == 2

\* records the session captures while a caller follows nextPageToken
MaxGrowth == 1

\* tool invocations the client makes
MaxCalls == 3

-----------------------------------------------------------------------------
(* JavaScript values *)

Undefined == [kind |-> "undefined"]
Null == [kind |-> "null"]
Str(s) == [kind |-> "string", str |-> s]
Num(k) == [kind |-> "number", int |-> k, half |-> FALSE]
NumHalf(k) == [kind |-> "number", int |-> k, half |-> TRUE]
Arr(a) == [kind |-> "array", vals |-> a]
NaN == [kind |-> "NaN"]

IsNullish(v) == v.kind = "undefined" \/ v.kind = "null"

Digits == <<"0", "1", "2", "3", "4", "5", "6", "7", "8", "9">>
IsDigit(c) == \E d \in 1..10 : Digits[d] = c
DigitVal(c) == (CHOOSE d \in 1..10 : Digits[d] = c) - 1
\* StrWhiteSpaceChar, as far as the token alphabet has it
IsWhiteSpace(c) == c = " "

\* Number.prototype.toString of an integer
RECURSIVE StringInt(_)
StringInt(n) ==
    IF n < 0 THEN <<"-">> \o StringInt(-n)
    ELSE IF n < 10 THEN <<Digits[n + 1]>>
    ELSE Append(StringInt(n \div 10), Digits[(n % 10) + 1])

\* String(x) of a number x >= 0: "k" or "k.5"
String(x) ==
    IF x.half THEN StringInt(x.int) \o <<".", "5">> ELSE StringInt(x.int)

RECURSIVE SkipWhiteSpace(_)
SkipWhiteSpace(s) ==
    IF s # <<>> /\ IsWhiteSpace(Head(s)) THEN SkipWhiteSpace(Tail(s)) ELSE s

\* the value of the longest prefix of digits of s, continuing from acc
RECURSIVE DigitPrefix(_, _)
DigitPrefix(s, acc) ==
    IF s # <<>> /\ IsDigit(Head(s))
    THEN DigitPrefix(Tail(s), 10 * acc + DigitVal(Head(s)))
    ELSE acc

\* Number.parseInt(s, 10): leading white space is skipped, then an optional
\* sign, then the longest prefix of digits; NaN when that prefix is empty.
parseInt(s) ==
    LET t == SkipWhiteSpace(s)
        signed == t # <<>> /\ (Head(t) = "-" \/ Head(t) = "+")
        sign == IF t # <<>> /\ Head(t) = "-" THEN -1 ELSE 1
        body == IF signed THEN Tail(t) ELSE t
    IN IF body = <<>> \/ ~IsDigit(Head(body)) THEN NaN
       ELSE Num(sign * DigitPrefix(body, 0))

\* ToIntegerOrInfinity of a number: truncation towards zero
ToInteger(x) == IF x.half /\ x.int < 0 THEN x.int + 1 ELSE x.int

\* i + x for an integer i and a number x
Plus(i, x) == [kind |-> "number", int |-> i + x.int, half |-> x.half]

\* i - x for an integer i and a number x
Minus(i, x) ==
    IF x.half THEN NumHalf(i - x.int - 1) ELSE Num(i - x.int)

\* Math.max(x, 0)
MaxZero(x) == IF x.int < 0 THEN Num(0) ELSE x

Min(a, b) == IF a < b THEN a ELSE b
Max(a, b) == IF a > b THEN a ELSE b

\* Array.prototype.slice(start, end) with integer arguments: a negative
\* argument counts from the end, and both are clamped to [0, length].
slice(items, start, end) ==
    LET len == Len(items)
        k == IF start < 0 THEN Max(len + start, 0) ELSE Min(start, len)
        final == IF end < 0 THEN Max(len + end, 0) ELSE Min(end, len)
    IN IF final > k THEN SubSeq(items, k + 1, final) ELSE <<>>

\* the set of the elements of an array
Range(a) == {a[i] : i \in DOMAIN a}

-----------------------------------------------------------------------------
(* src/src/utils/pagination.ts, first module: the generic paginator *)

DEFAULT_PAGE_SIZE == 20

\* noPaginationOptions without the pageToken === null test
noPaginationOptionsNullIsToken(options) ==
    options.pageSize.kind = "undefined" /\ options.pageToken.kind = "undefined"

noPaginationOptions(options) ==
    options.pageSize.kind = "undefined" /\ IsNullish(options.pageToken)

paginateResolveStartIndex(pageToken, total) ==
    IF IsNullish(pageToken) THEN [startIndex |-> 0, invalidToken |-> FALSE]
    ELSE LET parsed == parseInt(pageToken.str)
         IN IF parsed.kind = "NaN" \/ parsed.int < 0 \/ parsed.int >= total
            THEN [startIndex |-> 0, invalidToken |-> TRUE]
            ELSE [startIndex |-> parsed.int, invalidToken |-> FALSE]

\* options = Undefined stands for a call without the options argument
paginate(items, options) ==
    LET total == Len(items)
    IN IF options.kind = "undefined" \/ noPaginationOptions(options)
       THEN [items |-> items,
             nextPageToken |-> Undefined,
             previousPageToken |-> Undefined,
             startIndex |-> 0,
             endIndex |-> total,
             invalidToken |-> FALSE]
       ELSE LET pageSize == IF options.pageSize.kind = "undefined"
                            THEN Num(DEFAULT_PAGE_SIZE)
                            ELSE options.pageSize
                r == paginateResolveStartIndex(options.pageToken, total)
                startIndex == r.startIndex
                pageItems == slice(items, startIndex,
                                   ToInteger(Plus(startIndex, pageSize)))
                endIndex == startIndex + Len(pageItems)
            IN [items |-> pageItems,
                nextPageToken |->
                    IF endIndex < total THEN Str(StringInt(endIndex))
                    ELSE Undefined,
                previousPageToken |->
                    IF startIndex > 0
                    THEN Str(String(MaxZero(Minus(startIndex, pageSize))))
                    ELSE Undefined,
                startIndex |-> startIndex,
                endIndex |-> endIndex,
                invalidToken |-> r.invalidToken]

-----------------------------------------------------------------------------
(* src/src/utils/pagination.ts, second module: filter and listing service *)

FILTERABLE_RESOURCE_TYPES ==
    <<"document", "stylesheet", "image", "media", "font", "script", "xhr",
      "fetch", "prefetch", "websocket", "preflight", "other">>

FILTERABLE_RESOURCE_TYPES_SET == Range(FILTERABLE_RESOURCE_TYPES)

isFilterableResourceType(value) == value \in FILTERABLE_RESOURCE_TYPES_SET

\* HTTPRequest.resourceType()
resourceType(request) == request.resourceType

sanitizeRequestTypeFilter(requestType) ==
    IF IsNullish(requestType) THEN Undefined
    ELSE LET values == IF requestType.kind = "array" THEN requestType.vals
                       ELSE <<requestType.str>>
             sanitized == SelectSeq(values, isFilterableResourceType)
         IN IF Len(sanitized) = 0 THEN Undefined
            ELSE IF requestType.kind = "array" THEN Arr(sanitized)
            ELSE Str(sanitized[1])

\* !requestType: undefined, null and the empty string are falsy, an array
\* (the empty one too) is truthy
Falsy(v) == IsNullish(v) \/ (v.kind = "string" /\ v.str = "")

\* filterNetworkRequests without the isFilterableResourceType test
filterNetworkRequestsNoAllowList(reqs, requestType) ==
    IF Falsy(requestType) THEN reqs
    ELSE LET normalizedTypes == IF requestType.kind = "array"
                                THEN Range(requestType.vals)
                                ELSE {requestType.str}
             keep(request) == resourceType(request) \in normalizedTypes
         IN IF Cardinality(normalizedTypes) = 0 THEN reqs
            ELSE SelectSeq(reqs, keep)

\* filterNetworkRequests that takes an array for no filter
filterNetworkRequestsSingleOnly(reqs, requestType) ==
    IF Falsy(requestType) \/ requestType.kind = "array" THEN reqs
    ELSE LET keep(request) ==
                 LET type == resourceType(request)
                 IN IF ~isFilterableResourceType(type) THEN FALSE
                    ELSE type = requestType.str
         IN SelectSeq(reqs, keep)

filterNetworkRequests(reqs, requestType) ==
    IF Falsy(requestType) THEN reqs
    ELSE LET normalizedTypes == IF requestType.kind = "array"
                                THEN Range(requestType.vals)
                                ELSE {requestType.str}
             keep(request) ==
                 LET type == resourceType(request)
                 IN IF ~isFilterableResourceType(type) THEN FALSE
                    ELSE type \in normalizedTypes
         IN IF Cardinality(normalizedTypes) = 0 THEN reqs
            ELSE SelectSeq(reqs, keep)

hasPagination(options) ==
    options.pageSize.kind # "undefined" \/ ~IsNullish(options.pageToken)

\* validatePageSize with DEFAULT_PAGE_SIZE for total || DEFAULT_PAGE_SIZE
validatePageSizeDefaultOnly(pageSize, total) ==
    IF pageSize.kind = "undefined" THEN DEFAULT_PAGE_SIZE
    ELSE IF pageSize.half \/ pageSize.int <= 0 THEN DEFAULT_PAGE_SIZE
    ELSE Min(pageSize.int, Max(total, 1))

\* total || DEFAULT_PAGE_SIZE: 0 is falsy
validatePageSize(pageSize, total) ==
    IF pageSize.kind = "undefined"
    THEN (IF total # 0 THEN total ELSE DEFAULT_PAGE_SIZE)
    ELSE IF pageSize.half \/ pageSize.int <= 0 THEN DEFAULT_PAGE_SIZE
    ELSE Min(pageSize.int, Max(total, 1))

\* resolveStartIndex without the parsed < 0 test
resolveStartIndexNoNegativeTest(pageToken, total) ==
    IF IsNullish(pageToken) THEN [startIndex |-> 0, invalidToken |-> FALSE]
    ELSE LET parsed == parseInt(pageToken.str)
         IN IF parsed.kind = "NaN" \/ parsed.int >= total
            THEN [startIndex |-> 0, invalidToken |-> total > 0]
            ELSE [startIndex |-> parsed.int, invalidToken |-> FALSE]

\* resolveStartIndex with parsed > total for parsed >= total
resolveStartIndexAcceptsTotal(pageToken, total) ==
    IF IsNullish(pageToken) THEN [startIndex |-> 0, invalidToken |-> FALSE]
    ELSE LET parsed == parseInt(pageToken.str)
         IN IF parsed.kind = "NaN" \/ parsed.int < 0 \/ parsed.int > total
            THEN [startIndex |-> 0, invalidToken |-> total > 0]
            ELSE [startIndex |-> parsed.int, invalidToken |-> FALSE]

\* resolveStartIndex with parsed >= total - 1 for parsed >= total
resolveStartIndexRejectsLast(pageToken, total) ==
    IF IsNullish(pageToken) THEN [startIndex |-> 0, invalidToken |-> FALSE]
    ELSE LET parsed == parseInt(pageToken.str)
         IN IF parsed.kind = "NaN" \/ parsed.int < 0 \/ parsed.int >= total - 1
            THEN [startIndex |-> 0, invalidToken |-> total > 0]
            ELSE [startIndex |-> parsed.int, invalidToken |-> FALSE]

resolveStartIndex(pageToken, total) ==
    IF IsNullish(pageToken) THEN [startIndex |-> 0, invalidToken |-> FALSE]
    ELSE LET parsed == parseInt(pageToken.str)
         IN IF parsed.kind = "NaN" \/ parsed.int < 0 \/ parsed.int >= total
            THEN [startIndex |-> 0, invalidToken |-> total > 0]
            ELSE [startIndex |-> parsed.int, invalidToken |-> FALSE]

\* nextPageToken with endIndex <= total for endIndex < total
\* nextPageToken one past the end of the page
nextPageTokenSkipsOne(endIndex, total) ==
    IF endIndex < total THEN Str(StringInt(endIndex + 1)) ELSE Undefined

nextPageTokenInclusive(endIndex, total) ==
    IF endIndex <= total THEN Str(StringInt(endIndex)) ELSE Undefined

\* const nextPageToken of paginateNetworkRequests
nextPageToken(endIndex, total) ==
    IF endIndex < total THEN Str(StringInt(endIndex)) ELSE Undefined

\* previousPageToken computed with DEFAULT_PAGE_SIZE for the page size
previousPageTokenDefaultSize(startIndex, pageSize) ==
    IF startIndex > 0
    THEN Str(StringInt(Max(startIndex - DEFAULT_PAGE_SIZE, 0)))
    ELSE Undefined

\* const previousPageToken of paginateNetworkRequests
previousPageToken(startIndex, pageSize) ==
    IF startIndex > 0 THEN Str(StringInt(Max(startIndex - pageSize, 0)))
    ELSE Undefined

\* an options object without a field reads the field as undefined
NoOptions ==
    [kind |-> "object", pageSize |-> Undefined, pageToken |-> Undefined,
     requestType |-> Undefined]

paginateNetworkRequests(reqs, options) ==
    LET sanitizedOptions == IF options.kind = "undefined" THEN NoOptions
                            ELSE options
        filteredRequests ==
            filterNetworkRequests(reqs, sanitizedOptions.requestType)
        total == Len(filteredRequests)
        hasPaginationOptions == hasPagination(sanitizedOptions)
    IN IF ~hasPaginationOptions
       THEN [requests |-> filteredRequests,
             nextPageToken |-> Undefined,
             previousPageToken |-> Undefined,
             startIndex |-> 0,
             endIndex |-> total,
             invalidToken |-> FALSE,
             total |-> total,
             appliedRequestType |-> sanitizedOptions.requestType]
       ELSE LET pageSize == validatePageSize(sanitizedOptions.pageSize, total)
                r == resolveStartIndex(sanitizedOptions.pageToken, total)
                startIndex == r.startIndex
                pageRequests ==
                    slice(filteredRequests, startIndex, startIndex + pageSize)
                endIndex == startIndex + Len(pageRequests)
            IN [requests |-> pageRequests,
                nextPageToken |-> nextPageToken(endIndex, total),
                previousPageToken |-> previousPageToken(startIndex, pageSize),
                startIndex |-> startIndex,
                endIndex |-> endIndex,
                invalidToken |-> r.invalidToken,
                total |-> total,
                appliedRequestType |-> sanitizedOptions.requestType]

-----------------------------------------------------------------------------
(* src/unnamed/part_000: the older, unfiltered paginateNetworkRequests *)

legacyNoPaginationOptions(options) ==
    options.pageSize.kind = "undefined" /\ IsNullish(options.pageToken)

legacyValidatePageSize(pageSize, total) ==
    IF pageSize.kind = "undefined"
    THEN (IF total # 0 THEN total ELSE DEFAULT_PAGE_SIZE)
    ELSE IF pageSize.half \/ pageSize.int <= 0 THEN DEFAULT_PAGE_SIZE
    ELSE Min(pageSize.int, Max(total, 1))

legacyResolveStartIndex(pageToken, total) ==
    IF IsNullish(pageToken) THEN [startIndex |-> 0, invalidToken |-> FALSE]
    ELSE LET parsed == parseInt(pageToken.str)
         IN IF parsed.kind = "NaN" \/ parsed.int < 0 \/ parsed.int >= total
            THEN [startIndex |-> 0, invalidToken |-> TRUE]
            ELSE [startIndex |-> parsed.int, invalidToken |-> FALSE]

legacyPaginateNetworkRequests(reqs, options) ==
    LET total == Len(reqs)
    IN IF options.kind = "undefined" \/ legacyNoPaginationOptions(options)
       THEN [requests |-> reqs,
             nextPageToken |-> Undefined,
             previousPageToken |-> Undefined,
             startIndex |-> 0,
             endIndex |-> total,
             invalidToken |-> FALSE]
       ELSE LET pageSize == legacyValidatePageSize(options.pageSize, total)
                r == legacyResolveStartIndex(options.pageToken, total)
                startIndex == r.startIndex
                pageRequests == slice(reqs, startIndex, startIndex + pageSize)
                endIndex == startIndex + Len(pageRequests)
            IN [requests |-> pageRequests,
                nextPageToken |->
                    IF endIndex < total THEN Str(StringInt(endIndex))
                    ELSE Undefined,
                previousPageToken |->
                    IF startIndex > 0
                    THEN Str(StringInt(Max(startIndex - pageSize, 0)))
                    ELSE Undefined,
                startIndex |-> startIndex,
                endIndex |-> endIndex,
                invalidToken |-> r.invalidToken]

-----------------------------------------------------------------------------
(* The state machine: the session appends records, callers call *)

\* resource types of captured requests; "texttrack" is a puppeteer
\* ResourceType outside FILTERABLE_RESOURCE_TYPES
RecordTypes == {"document", "image", "texttrack"}

\* a captured request: id is its position of capture
NewRequest(reqs, t) == [id |-> Len(reqs), resourceType |-> t]

RECURSIVE AppendMany(_, _, _)
AppendMany(reqs, t, n) ==
    IF n = 0 THEN reqs
    ELSE AppendMany(Append(reqs, NewRequest(reqs, t)), t, n - 1)

PageSizes ==
    {Undefined, Num(-1), Num(0), Num(1), Num(2), NumHalf(1),
     Num(DEFAULT_PAGE_SIZE + 1)}

MalformedTokens ==
    {<<>>, <<"a">>, <<"-", "1">>, <<"1", "a">>, <<" ", "1">>, <<"+", "2">>}

PageTokens(n) ==
    {Undefined, Null}
    \cup {Str(StringInt(k)) : k \in {0, 1, 2, n, n + 1} \cup ({n - 1} \cap Nat)}
    \cup {Str(s) : s \in MalformedTokens}

RequestTypes ==
    {Undefined, Null, Str("image"), Arr(<<"image", "document">>),
     Str("texttrack"), Arr(<<>>), Arr(<<"texttrack", "image">>)}

Options(pageSize, pageToken, requestType) ==
    [kind |-> "object", pageSize |-> pageSize, pageToken |-> pageToken,
     requestType |-> requestType]

-----------------------------------------------------------------------------
(* Tool invocations: the callback registerTool gives the server, and the    *)
(* toolMutex they share.  A position of the callback is the await it is     *)
(* suspended at:                                                            *)
(*   "idle"      not invoked yet                                            *)
(*   "waiting"   at await toolMutex.acquire(), the guard not given yet      *)
(*   "acquired"  the guard given, before await getContext()                 *)
(*   "context"   before await tool.handler(...)                             *)
(*   "handled"   before await response.handle(...)                          *)
(*   "finally"   the try block left, before guard.dispose()                 *)
(*   "done"      the callback has settled                                   *)

Calls == 1..MaxCalls

\* new Mutex(): free, nobody waiting
InitTools ==
    /\ locked = FALSE
    /\ acquirers = <<>>
    /\ tpc = [c \in Calls |-> "idle"]
    /\ outcome = [c \in Calls |-> "none"]
    /\ acquires = [c \in Calls |-> 0]
    /\ disposes = [c \in Calls |-> 0]

\* Mutex.acquire: the guard is given at once when the mutex is free,
\* otherwise the caller queues
MutexAcquire(c) ==
    /\ locked' = TRUE
    /\ acquirers' = IF locked THEN Append(acquirers, c) ELSE acquirers

\* the invocations a dispose hands the guard to: the one that waited longest
Resumed == IF acquirers = <<>> THEN {} ELSE {Head(acquirers)}

\* Guard.dispose: the mutex is handed to the first waiter, or freed
MutexRelease ==
    /\ locked' = (acquirers # <<>>)
    /\ acquirers' = IF acquirers = <<>> THEN <<>> ELSE Tail(acquirers)

\* a callback that goes on whether or not the guard was given
EnteredWithoutAwait(granted) == "acquired"

\* const guard = await toolMutex.acquire(): the callback goes on only with
\* the guard
Entered(granted) == IF granted THEN "acquired" ELSE "waiting"

\* a callback that disposes the guard only after response.handle
FinallyOnReturnOnly(position) ==
    IF position = "handled" THEN "finally" ELSE "done"

\* try { ... } finally { guard.dispose() }: wherever the try block is left,
\* by a return or by a throw, the finally block is next
Finally(position) == "finally"

\* the server invokes the callback of a tool
ToolCall(c) ==
    /\ tpc[c] = "idle"
    /\ MutexAcquire(c)
    /\ tpc' = [tpc EXCEPT ![c] = Entered(~locked)]
    /\ acquires' = [acquires EXCEPT ![c] = IF locked THEN @ ELSE @ + 1]
    /\ UNCHANGED <<outcome, disposes, listVars>>

\* await getContext() settles: resolveBrowser or McpContext.from may throw
GetContext(c, ok) ==
    /\ tpc[c] = "acquired"
    /\ tpc' = [tpc EXCEPT ![c] = IF ok THEN "context" ELSE Finally("acquired")]
    /\ outcome' = [outcome EXCEPT ![c] = IF ok THEN @ ELSE "thrown"]
    /\ UNCHANGED <<locked, acquirers, acquires, disposes, listVars>>

\* await tool.handler({params}, response, context) settles
ToolHandler(c, ok) ==
    /\ tpc[c] = "context"
    /\ tpc' = [tpc EXCEPT ![c] = IF ok THEN "handled" ELSE Finally("context")]
    /\ outcome' = [outcome EXCEPT ![c] = IF ok THEN @ ELSE "thrown"]
    /\ UNCHANGED <<locked, acquirers, acquires, disposes, listVars>>

\* await response.handle(tool.name, context) settles: {content} is
\* returned, or the error is caught and {content, isError: true} returned
ResponseHandle(c, ok) ==
    /\ tpc[c] = "handled"
    /\ tpc' = [tpc EXCEPT ![c] = Finally("handled")]
    /\ outcome' = [outcome EXCEPT ![c] = IF ok THEN "content" ELSE "isError"]
    /\ UNCHANGED <<locked, acquirers, acquires, disposes, listVars>>

\* guard.dispose() in the finally block, and the callback settles
Dispose(c) ==
    /\ tpc[c] = "finally"
    /\ MutexRelease
    /\ disposes' = [disposes EXCEPT ![c] = @ + 1]
    /\ tpc' = [d \in Calls |->
                  IF d = c THEN "done"
                  ELSE IF d \in Resumed THEN "acquired"
                  ELSE tpc[d]]
    /\ acquires' = [d \in Calls |->
                       IF d \in Resumed THEN acquires[d] + 1 ELSE acquires[d]]
    /\ UNCHANGED <<outcome, listVars>>

NextTools ==
    \/ \E c \in Calls : ToolCall(c)
    \/ \E c \in Calls, ok \in BOOLEAN : GetContext(c, ok)
    \/ \E c \in Calls, ok \in BOOLEAN : ToolHandler(c, ok)
    \/ \E c \in Calls, ok \in BOOLEAN : ResponseHandle(c, ok)
    \/ \E c \in Calls : Dispose(c)

\* the awaited promises of an invocation settle and the event loop resumes
\* the callback
ToolFairness ==
    \A c \in Calls :
        /\ WF_vars(\E ok \in BOOLEAN : GetContext(c, ok))
        /\ WF_vars(\E ok \in BOOLEAN : ToolHandler(c, ok))
        /\ WF_vars(\E ok \in BOOLEAN : ResponseHandle(c, ok))
        /\ WF_vars(Dispose(c))

-----------------------------------------------------------------------------
(* Pagination callers *)

NoCall == [fn |-> "none", options |-> Undefined]
NoResult == [kind |-> "none"]
NoHeld == [kind |-> "none"]
NoChain == [kind |-> "none"]
NoTrip == [kind |-> "none"]

Init ==
    /\ requests = <<>>
    /\ pc = "idle"
    /\ call = NoCall
    /\ result = NoResult
    /\ held = NoHeld
    /\ chain = NoChain
    /\ trip = NoTrip
    /\ InitTools

\* the session captures one more request
AppendRequest(t) ==
    /\ pc \in {"idle", "held"}
    /\ Len(requests) < MaxSmall
    /\ requests' = Append(requests, NewRequest(requests, t))
    /\ UNCHANGED <<pc, call, result, held, chain, trip, toolVars>>

\* a navigation: the session captures DEFAULT_PAGE_SIZE requests of one type
\* between two calls
AppendBurst(t) ==
    /\ pc \in {"idle", "held"}
    /\ Len(requests) < DEFAULT_PAGE_SIZE
    /\ requests' = AppendMany(requests, t, DEFAULT_PAGE_SIZE)
    /\ UNCHANGED <<pc, call, result, held, chain, trip, toolVars>>

Run(fn, options) ==
    IF fn = "paginate" THEN paginate(requests, options)
    ELSE IF fn = "legacyPaginateNetworkRequests"
    THEN legacyPaginateNetworkRequests(requests, options)
    ELSE paginateNetworkRequests(requests, options)

Invoke(fn, options) ==
    /\ call' = [fn |-> fn, options |-> options]
    /\ result' = Run(fn, options)

CallPaginate ==
    /\ pc = "idle"
    /\ \E options \in {Undefined} \cup
            {Options(ps, tok, Undefined) :
                ps \in PageSizes, tok \in PageTokens(Len(requests))} :
          Invoke("paginate", options)
    /\ pc' = "returned"
    /\ UNCHANGED <<requests, held, chain, trip, toolVars>>

CallLegacyPaginateNetworkRequests ==
    /\ pc = "idle"
    /\ \E options \in {Undefined} \cup
            {Options(ps, tok, Undefined) :
                ps \in PageSizes, tok \in PageTokens(Len(requests))} :
          Invoke("legacyPaginateNetworkRequests", options)
    /\ pc' = "returned"
    /\ UNCHANGED <<requests, held, chain, trip, toolVars>>

CallPaginateNetworkRequests ==
    /\ pc = "idle"
    /\ \E options \in {Undefined} \cup
            {Options(ps, tok, rt) :
                ps \in PageSizes, tok \in PageTokens(Len(requests)),
                rt \in RequestTypes} :
          Invoke("paginateNetworkRequests", options)
    /\ pc' = "returned"
    /\ UNCHANGED <<requests, held, chain, trip, toolVars>>

CallFilterNetworkRequests ==
    /\ pc = "idle"
    /\ \E rt \in RequestTypes :
          /\ call' = [fn |-> "filterNetworkRequests",
                      options |-> Options(Undefined, Undefined, rt)]
          /\ result' = [requests |-> filterNetworkRequests(requests, rt)]
    /\ pc' = "filtered"
    /\ UNCHANGED <<requests, held, chain, trip, toolVars>>

CallSanitizeRequestTypeFilter ==
    /\ pc = "idle"
    /\ \E rt \in RequestTypes :
          /\ call' = [fn |-> "sanitizeRequestTypeFilter",
                      options |-> Options(Undefined, Undefined, rt)]
          /\ result' = [requestType |-> sanitizeRequestTypeFilter(rt)]
    /\ pc' = "sanitized"
    /\ UNCHANGED <<requests, held, chain, trip, toolVars>>

\* the filter a listing call was made with
RequestTypeOf(options) ==
    IF options.kind = "undefined" THEN Undefined ELSE options.requestType

\* a caller keeps one of the tokens of a listing result, to replay it later
\* with the same filter; it notes the record the offset pointed at
Hold(which) ==
    /\ pc = "returned"
    /\ call.fn = "paginateNetworkRequests"
    /\ LET token == IF which = "next" THEN result.nextPageToken
                     ELSE result.previousPageToken
           view == filterNetworkRequests(requests, RequestTypeOf(call.options))
       IN /\ token.kind = "string"
          /\ parseInt(token.str).kind = "number"
          /\ parseInt(token.str).int + 1 \in DOMAIN view
          /\ held' = [kind |-> "held",
                      token |-> token,
                      requestType |-> RequestTypeOf(call.options),
                      record |-> view[parseInt(token.str).int + 1],
                      issuedFor |-> Len(requests)]
    /\ pc' = "held"
    /\ call' = NoCall
    /\ result' = NoResult
    /\ UNCHANGED <<requests, chain, trip, toolVars>>

\* the caller replays the token it kept, with any page size
Replay ==
    /\ pc = "held"
    /\ \E ps \in PageSizes :
          Invoke("paginateNetworkRequests",
                 Options(ps, held.token, held.requestType))
    /\ pc' = "replayed"
    /\ UNCHANGED <<requests, held, chain, trip, toolVars>>

\* the ids of the records of a page
RECURSIVE Ids(_)
Ids(page) == IF page = <<>> THEN <<>> ELSE <<Head(page).id>> \o Ids(Tail(page))

PageOf(fn, res) == IF fn = "paginate" THEN res.items ELSE res.requests

Paginators ==
    {"paginate", "legacyPaginateNetworkRequests", "paginateNetworkRequests"}

\* a caller starts at the first page (no token) with a page size it keeps
\* for the whole chain
ChainStart(fn, ps, rt) ==
    /\ pc = "idle"
    /\ fn = "paginateNetworkRequests" \/ rt = Undefined
    /\ Invoke(fn, Options(ps, Undefined, rt))
    /\ chain' = [kind |-> "chain", fn |-> fn, pageSize |-> ps,
                 requestType |-> rt,
                 token |-> Run(fn, Options(ps, Undefined, rt)).nextPageToken,
                 visited |-> Ids(PageOf(fn, Run(fn, Options(ps, Undefined, rt)))),
                 calls |-> 1]
    /\ pc' = "chain"
    /\ UNCHANGED <<requests, held, trip, toolVars>>

\* the caller follows nextPageToken; it gives up after Len(requests) + 2
\* calls, more than a chain over the collection can need
ChainStep ==
    /\ pc = "chain"
    /\ chain.token.kind = "string"
    /\ chain.calls <= Len(requests) + 1
    /\ LET options == Options(chain.pageSize, chain.token, chain.requestType)
           res == Run(chain.fn, options)
       IN /\ Invoke(chain.fn, options)
          /\ chain' = [chain EXCEPT
                           !.token = res.nextPageToken,
                           !.visited = @ \o Ids(PageOf(chain.fn, res)),
                           !.calls = @ + 1]
    /\ UNCHANGED <<requests, pc, held, trip, toolVars>>

ChainEnd ==
    /\ pc = "chain"
    /\ chain.token.kind # "string" \/ chain.calls > Len(requests) + 1
    /\ pc' = "idle"
    /\ call' = NoCall
    /\ result' = NoResult
    /\ chain' = NoChain
    /\ UNCHANGED <<requests, held, trip, toolVars>>

\* a caller follows the nextPageToken of the page it was given, with the
\* options of that call, and remembers the page it leaves
FollowNext ==
    /\ pc = "returned"
    /\ call.fn \in Paginators
    /\ call.options.kind = "object"
    /\ result.nextPageToken.kind = "string"
    /\ trip' = [kind |-> "trip",
                startIndex |-> result.startIndex,
                endIndex |-> result.endIndex,
                items |-> PageOf(call.fn, result),
                nextPageToken |-> result.nextPageToken]
    /\ Invoke(call.fn, [call.options EXCEPT !.pageToken = result.nextPageToken])
    /\ pc' = "forward"
    /\ UNCHANGED <<requests, held, chain, toolVars>>

\* the caller comes back by the previousPageToken of the page it went to
FollowPrevious ==
    /\ pc = "forward"
    /\ result.previousPageToken.kind = "string"
    /\ Invoke(call.fn,
              [call.options EXCEPT !.pageToken = result.previousPageToken])
    /\ pc' = "back"
    /\ UNCHANGED <<requests, held, chain, trip, toolVars>>

\* the result is call-scoped: the caller drops it
Return ==
    /\ pc \in {"returned", "replayed", "filtered", "sanitized", "forward", "back"}
    /\ pc' = "idle"
    /\ call' = NoCall
    /\ result' = NoResult
    /\ held' = NoHeld
    /\ trip' = NoTrip
    /\ UNCHANGED <<requests, chain, toolVars>>

Next ==
    \/ \E t \in RecordTypes : AppendRequest(t)
    \/ \E t \in RecordTypes : AppendBurst(t)
    \/ CallPaginate
    \/ CallLegacyPaginateNetworkRequests
    \/ CallPaginateNetworkRequests
    \/ CallFilterNetworkRequests
    \/ CallSanitizeRequestTypeFilter
    \/ \E which \in {"next", "previous"} : Hold(which)
    \/ Replay
    \/ \E fn \in Paginators, ps \in PageSizes, rt \in RequestTypes :
          ChainStart(fn, ps, rt)
    \/ ChainStep
    \/ ChainEnd
    \/ FollowNext
    \/ FollowPrevious
    \/ Return

Spec == Init /\ [][Next]_vars

\* a page size that is a positive integer
ValidPageSize(pageSize) ==
    pageSize.kind = "number" /\ ~pageSize.half /\ pageSize.int > 0

\* the session captures one more request between two calls of a chain
AppendDuringChain(t) ==
    /\ pc = "chain"
    /\ Len(requests) < MaxSmall + MaxGrowth
    /\ requests' = Append(requests, NewRequest(requests, t))
    /\ UNCHANGED <<pc, call, result, held, chain, trip, toolVars>>

NextGrow ==
    \/ \E t \in RecordTypes : AppendRequest(t)
    \/ \E t \in RecordTypes : AppendBurst(t)
    \/ \E fn \in Paginators, rt \in RequestTypes,
            ps \in {size \in PageSizes : size = Undefined \/ ValidPageSize(size)} :
          ChainStart(fn, ps, rt)
    \/ ChainStep
    \/ ChainEnd
    \/ \E t \in RecordTypes : AppendDuringChain(t)

\* chains of calls over a collection that grows by appends
SpecGrow == Init /\ [][NextGrow]_vars

\* the tool invocations alone
SpecTools == Init /\ [][NextTools]_vars

\* the tool invocations, every awaited promise settling
SpecToolsFair == Init /\ [][NextTools]_vars /\ ToolFairness

-----------------------------------------------------------------------------
(* What the properties speak of *)

\* a paginator has returned and its result is at hand
Paged == pc \in {"returned", "replayed", "chain"}

\* the categories a filter asks for
Requested(rt) ==
    IF rt.kind = "array" THEN Range(rt.vals)
    ELSE IF rt.kind = "string" THEN {rt.str}
    ELSE {}

\* the records of reqs whose type is in S, in their order
RECURSIVE Matching(_, _)
Matching(reqs, S) ==
    IF reqs = <<>> THEN <<>>
    ELSE LET front == Matching(SubSeq(reqs, 1, Len(reqs) - 1), S)
             last == reqs[Len(reqs)]
         IN IF last.resourceType \in S THEN Append(front, last) ELSE front

\* the filtered view a filter stands for: everything when nothing is asked
\* for, else the records of a recognized type that is asked for
View(reqs, rt) ==
    IF Requested(rt) = {} THEN reqs
    ELSE Matching(reqs, Requested(rt) \cap FILTERABLE_RESOURCE_TYPES_SET)

\* the collection the last call paged: the listing service pages the
\* filtered view, the other two the collection itself
PagedView ==
    IF call.fn = "paginateNetworkRequests"
    THEN View(requests, RequestTypeOf(call.options))
    ELSE requests

Total == Len(PagedView)
Page == PageOf(call.fn, result)

PageSizeOf(options) ==
    IF options.kind = "undefined" THEN Undefined ELSE options.pageSize
PageTokenOf(options) ==
    IF options.kind = "undefined" THEN Undefined ELSE options.pageToken

\* the last call asked for pagination
PaginatedPath ==
    PageSizeOf(call.options).kind # "undefined"
    \/ ~IsNullish(PageTokenOf(call.options))

-----------------------------------------------------------------------------
(* C1 *)

\* C1: every paginator result has 0 <= startIndex <= endIndex <= total and a
\* page of exactly endIndex - startIndex items, total being the length of
\* the (post-filter) collection that was paged.
C1_IndexInvariant ==
    Paged =>
        /\ 0 <= result.startIndex
        /\ result.startIndex <= result.endIndex
        /\ result.endIndex <= Total
        /\ Len(Page) = result.endIndex - result.startIndex
        /\ call.fn = "paginateNetworkRequests" => result.total = Total

\* paginate with pageSize -1 and no token on more than DEFAULT_PAGE_SIZE
\* records: slice counts the negative end from the end of the collection
C1_Witness ==
    /\ pc = "returned"
    /\ call.fn = "paginate"
    /\ PageSizeOf(call.options) = Num(-1)
    /\ Total > DEFAULT_PAGE_SIZE
    /\ result.startIndex = 0
    /\ result.endIndex = Total - 1

-----------------------------------------------------------------------------
(* C2 *)

\* C2: in every paginator result nextPageToken is present iff
\* endIndex < total, and is then the decimal string of endIndex;
\* previousPageToken is present iff startIndex > 0.
C2_TokenPresence ==
    Paged =>
        /\ result.nextPageToken.kind = "string" <=> result.endIndex < Total
        /\ result.nextPageToken.kind = "string" =>
               result.nextPageToken.str = StringInt(result.endIndex)
        /\ result.nextPageToken.kind \in {"string", "undefined"}
        /\ result.previousPageToken.kind = "string" <=> result.startIndex > 0
        /\ result.previousPageToken.kind \in {"string", "undefined"}

\* a listing page with both tokens, the next one of two digits
C2_Witness ==
    /\ pc = "returned"
    /\ call.fn = "paginateNetworkRequests"
    /\ result.startIndex > 0
    /\ result.nextPageToken = Str(<<"2", "1">>)
    /\ result.previousPageToken.kind = "string"

-----------------------------------------------------------------------------
(* C3 *)

\* C3: on an unchanged collection, following nextPageToken from no token
\* with a fixed pageSize visits every index of [0, total) exactly once, in
\* order, and the chain ends with a result without nextPageToken; a chain
\* whose every call visits a new index ends within max(total, 1) calls.
C3_MonotonicChaining ==
    pc = "chain" =>
        /\ chain.calls <= Max(Total, 1)
        /\ Len(chain.visited) <= Total
        /\ chain.visited = SubSeq(Ids(PagedView), 1, Len(chain.visited))
        /\ chain.token.kind # "string" => chain.visited = Ids(PagedView)

\* the same for the two paginateNetworkRequests, and for paginate when the
\* pageSize it is given is a positive integer or absent
C3_ValidatedChaining ==
    (chain.kind = "chain"
        /\ (chain.fn = "paginate" =>
               \/ chain.pageSize.kind = "undefined"
               \/ (~chain.pageSize.half /\ chain.pageSize.int > 0)))
    => C3_MonotonicChaining

-----------------------------------------------------------------------------
(* C4 *)

\* C4: on a non-empty collection an absent or null pageToken gives
\* startIndex 0 and invalidToken false; a pageToken that parses to p with
\* 0 <= p < total gives startIndex p and invalidToken false; any other
\* pageToken gives startIndex 0 and invalidToken true.
C4_TokenResolution ==
    (Paged /\ Total > 0) =>
        LET tok == PageTokenOf(call.options)
            p == parseInt(tok.str)
        IN IF IsNullish(tok)
           THEN result.startIndex = 0 /\ ~result.invalidToken
           ELSE IF p.kind = "number" /\ 0 <= p.int /\ p.int < Total
           THEN result.startIndex = p.int /\ ~result.invalidToken
           ELSE result.startIndex = 0 /\ result.invalidToken

\* the listing service is given the token String(total) for a filtered view
\* of total > 0 records, and reports it invalid
C4_Witness ==
    /\ pc = "returned"
    /\ call.fn = "paginateNetworkRequests"
    /\ Total > 0
    /\ Total < Len(requests)
    /\ PageTokenOf(call.options) = Str(StringInt(Total))
    /\ result.invalidToken
    /\ result.startIndex = 0

-----------------------------------------------------------------------------
(* C5 *)

\* C5: a pageToken given for an empty (post-filter) collection is out of
\* range: invalidToken is true, startIndex and endIndex are 0, the page is
\* empty and there are no tokens.
C5_EmptyCollectionToken ==
    (Paged /\ Total = 0 /\ ~IsNullish(PageTokenOf(call.options))) =>
        /\ result.invalidToken
        /\ result.startIndex = 0
        /\ result.endIndex = 0
        /\ Page = <<>>
        /\ result.nextPageToken = Undefined
        /\ result.previousPageToken = Undefined

\* the same for paginate and the older paginateNetworkRequests alone
C5_EmptyCollectionTokenOlder ==
    call.fn # "paginateNetworkRequests" => C5_EmptyCollectionToken

-----------------------------------------------------------------------------
(* C6 *)

\* the page size the paginated path is to use
EffectivePageSize(pageSize, total) ==
    IF pageSize.kind = "undefined"
    THEN (IF total > 0 THEN total ELSE DEFAULT_PAGE_SIZE)
    ELSE IF pageSize.half \/ pageSize.int < 1 THEN DEFAULT_PAGE_SIZE
    ELSE Min(pageSize.int, Max(total, 1))

\* C6: on the paginated path the page is the records from startIndex on,
\* as many as the effective page size (total when pageSize is absent and
\* total > 0, 20 when it is absent and total = 0, 20 when it is no positive
\* integer, else min(pageSize, max(total, 1))), clipped to the collection;
\* it never holds more items than a valid requested pageSize.
C6_PageSizeResolution ==
    (Paged /\ PaginatedPath) =>
        LET ps == PageSizeOf(call.options)
            size == EffectivePageSize(ps, Total)
        IN /\ Page = SubSeq(PagedView, result.startIndex + 1,
                             Min(result.startIndex + size, Total))
           /\ (ps.kind = "number" /\ ~ps.half /\ ps.int > 0) =>
                  Len(Page) <= ps.int

\* the same for the two paginateNetworkRequests alone
C6_ValidatedPageSize ==
    call.fn # "paginate" => C6_PageSizeResolution

-----------------------------------------------------------------------------
(* C7 *)

\* a token is the decimal string of an offset into a view of total records
IsOffsetToken(token, total) ==
    token.kind = "string" => \E t \in 0..(total - 1) : token.str = StringInt(t)

\* C7: every token of a listing result is the decimal string of an integer
\* t with 0 <= t < total; replayed with the same filter against the same
\* collection or one that grew by appends, it is accepted: invalidToken is
\* false, startIndex is t, and the record at offset t of the filtered view
\* is the record that was there when the token was issued.
C7_TokensStayValid ==
    /\ (Paged /\ call.fn = "paginateNetworkRequests") =>
           /\ IsOffsetToken(result.nextPageToken, Total)
           /\ IsOffsetToken(result.previousPageToken, Total)
    /\ pc = "replayed" =>
           \E t \in 0..(Total - 1) :
               /\ held.token.str = StringInt(t)
               /\ ~result.invalidToken
               /\ result.startIndex = t
               /\ PagedView[t + 1] = held.record
               /\ Page[1] = held.record

\* a token issued under the filter "image" is replayed after the collection
\* grew, and lands past the first record of the filtered view
C7_Witness ==
    /\ pc = "replayed"
    /\ held.requestType = Str("image")
    /\ Len(requests) > held.issuedFor
    /\ Total < Len(requests)
    /\ result.startIndex > 0

-----------------------------------------------------------------------------
(* C8 *)

\* C8: for a non-empty requested set filterNetworkRequests returns exactly
\* the records whose type is in the allow-list and in the set, in their
\* original order; for an absent or empty filter it returns its input.
C8_FilterCorrectness ==
    pc = "filtered" =>
        LET rt == call.options.requestType
            S == Requested(rt)
        IN /\ result.requests = View(requests, rt)
           /\ S = {} => result.requests = requests
           /\ S # {} =>
                  /\ \A i \in DOMAIN result.requests :
                         /\ result.requests[i].resourceType \in S
                         /\ result.requests[i].resourceType
                                \in FILTERABLE_RESOURCE_TYPES_SET
                         /\ \A j \in DOMAIN result.requests :
                                i < j =>
                                    result.requests[i].id < result.requests[j].id
                  /\ \A k \in DOMAIN requests :
                         (requests[k].resourceType
                              \in S \cap FILTERABLE_RESOURCE_TYPES_SET)
                         => \E i \in DOMAIN result.requests :
                                result.requests[i] = requests[k]

\* an array filter, given in another order than the records come in, keeps
\* a document and the images after it and drops a record
C8_Witness ==
    /\ pc = "filtered"
    /\ call.options.requestType = Arr(<<"image", "document">>)
    /\ Len(result.requests) > DEFAULT_PAGE_SIZE
    /\ Len(result.requests) < Len(requests)
    /\ result.requests[1].resourceType = "document"
    /\ result.requests[2].resourceType = "image"

-----------------------------------------------------------------------------
(* C9 *)

\* C9: the listing service filters before it paginates: total is the
\* number of records that pass the filter, and startIndex, endIndex, both
\* tokens and the page are relative to the filtered sequence, the page
\* being filtered[startIndex .. endIndex).
C9_FilterBeforePagination ==
    (Paged /\ call.fn = "paginateNetworkRequests") =>
        LET filtered == View(requests, RequestTypeOf(call.options))
        IN /\ result.total = Len(filtered)
           /\ result.startIndex \in 0..Len(filtered)
           /\ result.endIndex \in result.startIndex..Len(filtered)
           /\ result.requests =
                  SubSeq(filtered, result.startIndex + 1, result.endIndex)
           /\ result.nextPageToken.kind = "string" <=>
                  result.endIndex < Len(filtered)
           /\ IsOffsetToken(result.nextPageToken, Len(filtered))
           /\ IsOffsetToken(result.previousPageToken, Len(filtered))

\* a page of the filtered view whose offsets differ from the raw ones: the
\* first record of the page is not the record at startIndex of the
\* collection
C9_Witness ==
    /\ pc = "returned"
    /\ call.fn = "paginateNetworkRequests"
    /\ result.total < Len(requests)
    /\ result.startIndex > 0
    /\ result.nextPageToken.kind = "string"
    /\ result.requests # <<>>
    /\ result.requests[1] # requests[result.startIndex + 1]

-----------------------------------------------------------------------------
(* C10 *)

\* C10: a requested category outside the allow-list is dropped from the
\* effective filter; when every requested category is outside it the
\* effective filter is empty and the listing returns all records, total
\* being the raw count.
C10_UnrecognizedDropped ==
    (Paged /\ call.fn = "paginateNetworkRequests") =>
        LET S == Requested(RequestTypeOf(call.options))
            effective == S \cap FILTERABLE_RESOURCE_TYPES_SET
        IN /\ effective # {} => result.total = Len(Matching(requests, effective))
           /\ effective = {} => result.total = Len(requests)

\* the part of C10 the code keeps: a filter with a recognized category
\* lists the records of its recognized categories
C10_RecognizedKept ==
    (Paged /\ call.fn = "paginateNetworkRequests") =>
        LET S == Requested(RequestTypeOf(call.options))
            effective == S \cap FILTERABLE_RESOURCE_TYPES_SET
        IN effective # {} => result.total = Len(Matching(requests, effective))

\* sanitizeRequestTypeFilter drops what the allow-list does not have, and
\* answers undefined when nothing is left
C10_SanitizeDrops ==
    pc = "sanitized" =>
        LET rt == call.options.requestType
            effective == Requested(rt) \cap FILTERABLE_RESOURCE_TYPES_SET
        IN /\ Requested(result.requestType) = effective
           /\ effective = {} => result.requestType = Undefined

-----------------------------------------------------------------------------
(* C11 *)

\* C11: appliedRequestType of every listing result is the requested filter
\* after allow-list sanitization (requested values outside the allow-list
\* removed, nothing when none remain), and the records returned are those
\* that match the echoed filter.
C11_AppliedFilterSanitized ==
    (Paged /\ call.fn = "paginateNetworkRequests") =>
        LET rt == RequestTypeOf(call.options)
            applied == result.appliedRequestType
        IN /\ Requested(applied) =
                  Requested(rt) \cap FILTERABLE_RESOURCE_TYPES_SET
           /\ Requested(applied) = Requested(sanitizeRequestTypeFilter(rt))
           /\ result.requests =
                  SubSeq(View(requests, applied),
                         result.startIndex + 1, result.endIndex)

\* what the code does: the filter is echoed as it was given
C11_AppliedFilterEchoed ==
    (Paged /\ call.fn = "paginateNetworkRequests") =>
        /\ result.appliedRequestType = RequestTypeOf(call.options)
        /\ result.requests =
               SubSeq(View(requests, result.appliedRequestType),
                      result.startIndex + 1, result.endIndex)

-----------------------------------------------------------------------------
(* C12 *)

\* C12: when no pagination is asked for (no options, or pageSize undefined
\* and pageToken undefined or null) a paginator returns the whole
\* (post-filter) collection as one page: startIndex 0, endIndex total, no
\* tokens, invalidToken false, whatever the size of the collection.
C12_NoOptionsIdentity ==
    (Paged /\ ~PaginatedPath) =>
        /\ Page = PagedView
        /\ result.startIndex = 0
        /\ result.endIndex = Total
        /\ result.nextPageToken = Undefined
        /\ result.previousPageToken = Undefined
        /\ ~result.invalidToken

\* paginate is given a null pageToken and no pageSize for more records
\* than the default page size
C12_Witness ==
    /\ pc = "returned"
    /\ call.fn = "paginate"
    /\ PageSizeOf(call.options) = Undefined
    /\ PageTokenOf(call.options) = Null
    /\ Len(result.items) > DEFAULT_PAGE_SIZE

-----------------------------------------------------------------------------
(* C13 *)

\* C13: when startIndex > 0, previousPageToken is the decimal string of
\* max(startIndex - pageSize, 0), pageSize being the effective page size of
\* this call (after defaulting and clamping); it is a non-negative offset
\* strictly smaller than startIndex.
C13_PreviousToken ==
    (Paged /\ result.startIndex > 0) =>
        LET size == EffectivePageSize(PageSizeOf(call.options), Total)
        IN /\ result.previousPageToken =
                  Str(StringInt(Max(result.startIndex - size, 0)))
           /\ \E t \in 0..(result.startIndex - 1) :
                  result.previousPageToken.str = StringInt(t)

\* the same for the two paginateNetworkRequests alone
C13_ValidatedPreviousToken ==
    call.fn # "paginate" => C13_PreviousToken

-----------------------------------------------------------------------------
(* C14 *)

\* the fields the two paginateNetworkRequests results share
Shared(res) ==
    [requests |-> res.requests,
     nextPageToken |-> res.nextPageToken,
     previousPageToken |-> res.previousPageToken,
     startIndex |-> res.startIndex,
     endIndex |-> res.endIndex,
     invalidToken |-> res.invalidToken]

\* C14: the older paginateNetworkRequests and the newer one called without
\* a filter return the same result for every collection and options,
\* except that for a non-null pageToken and an empty collection the older
\* one reports invalidToken true and the newer one false.
C14_LegacyEquivalence ==
    (pc = "returned"
        /\ call.fn \in {"legacyPaginateNetworkRequests",
                        "paginateNetworkRequests"}
        /\ RequestTypeOf(call.options) = Undefined) =>
        LET older == legacyPaginateNetworkRequests(requests, call.options)
            newer == paginateNetworkRequests(requests, call.options)
            diverge == Len(requests) = 0
                       /\ ~IsNullish(PageTokenOf(call.options))
        IN /\ Shared(result) =
                  (IF call.fn = "paginateNetworkRequests" THEN Shared(newer)
                   ELSE Shared(older))
           /\ ~diverge => Shared(older) = Shared(newer)
           /\ diverge =>
                  /\ older.invalidToken
                  /\ ~newer.invalidToken
                  /\ [Shared(older) EXCEPT !.invalidToken = FALSE]
                         = Shared(newer)

\* the older one is given a token for an empty collection: the one case
\* where the two differ
C14_Witness ==
    /\ pc = "returned"
    /\ call.fn = "legacyPaginateNetworkRequests"
    /\ Len(requests) = 0
    /\ ~IsNullish(PageTokenOf(call.options))
    /\ result.invalidToken
    /\ ~paginateNetworkRequests(requests, call.options).invalidToken

\* the two agree on a page in the middle of a long collection
C14_AgreeWitness ==
    /\ pc = "returned"
    /\ call.fn = "paginateNetworkRequests"
    /\ RequestTypeOf(call.options) = Undefined
    /\ Len(requests) > DEFAULT_PAGE_SIZE
    /\ result.startIndex > 0
    /\ result.nextPageToken.kind = "string"

-----------------------------------------------------------------------------
(* C15 *)

\* C15: on an unchanged collection and with a fixed valid pageSize, the
\* page requested with the nextPageToken of the page at startIndex s has
\* previousPageToken String(s), and following next and then previous
\* returns the same page: the same startIndex, endIndex and items.
C15_RoundTrip ==
    (pc \in {"forward", "back"} /\ ValidPageSize(PageSizeOf(call.options))) =>
        /\ pc = "forward" =>
              /\ result.startIndex = trip.endIndex
              /\ result.previousPageToken = Str(StringInt(trip.startIndex))
        /\ pc = "back" =>
              /\ result.startIndex = trip.startIndex
              /\ result.endIndex = trip.endIndex
              /\ PageOf(call.fn, result) = trip.items
              /\ result.nextPageToken = trip.nextPageToken

\* the listing service comes back to a filtered page that is not the first
C15_Witness ==
    /\ pc = "back"
    /\ call.fn = "paginateNetworkRequests"
    /\ ValidPageSize(PageSizeOf(call.options))
    /\ Requested(RequestTypeOf(call.options)) # {}
    /\ trip.startIndex > 0
    /\ trip.items # <<>>
    /\ PageOf(call.fn, result) = trip.items

-----------------------------------------------------------------------------
(* C16 *)

-----------------------------------------------------------------------------
(* C17 *)

\* the invocation holds the guard: it is between the acquire that gave it
\* and its dispose
Critical(c) == tpc[c] \in {"acquired", "context", "handled", "finally"}

\* C17: tool invocations are serialized by toolMutex: at most one
\* invocation at a time is between acquiring the guard and disposing it, so
\* the handler and response.handle of an invocation never interleave with
\* those of another; the others wait, in the order they came.
C17_Serialized ==
    /\ Cardinality({c \in Calls : Critical(c)}) <= 1
    /\ locked <=> (\E c \in Calls : Critical(c))
    /\ \A c \in Calls :
          /\ Critical(c) => acquires[c] = disposes[c] + 1
          /\ tpc[c] = "waiting" <=> (\E i \in DOMAIN acquirers : acquirers[i] = c)
          /\ tpc[c] \in {"idle", "waiting"} => outcome[c] = "none"

\* an invocation is between its handler and response.handle while another
\* waits for the guard and a third has finished
C17_Witness ==
    \E c, d, e \in Calls :
        /\ tpc[c] = "handled"
        /\ tpc[d] = "waiting"
        /\ tpc[e] = "done"
        /\ disposes[e] = 1

-----------------------------------------------------------------------------
(* C18 *)

\* an invocation that has settled was given one guard and disposed it once,
\* however it ended; no guard is disposed that was not given
C18_DisposedOnce ==
    \A c \in Calls :
        /\ disposes[c] <= acquires[c]
        /\ acquires[c] <= 1
        /\ tpc[c] = "done" =>
              /\ acquires[c] = 1
              /\ disposes[c] = 1
              /\ outcome[c] \in {"content", "isError", "thrown"}

\* C18: the guard is disposed on every exit path of the callback (a normal
\* return, an error of response.handle turned into an isError result, an
\* exception of getContext or of the tool handler): every acquire is
\* eventually followed by exactly one dispose, and an invocation that waits
\* for the guard is eventually given it, whatever failed before.
C18_GuardDisposed ==
    /\ []C18_DisposedOnce
    /\ \A c \in Calls : (acquires[c] > disposes[c]) ~> (disposes[c] = acquires[c])
    /\ \A c \in Calls : (tpc[c] = "waiting") ~> (tpc[c] = "acquired")

\* after an invocation that threw has disposed its guard, the invocation
\* that waited behind it holds the guard and another still waits
C18_Witness ==
    \E c, d, e \in Calls :
        /\ tpc[c] = "done"
        /\ outcome[c] = "thrown"
        /\ disposes[c] = 1
        /\ tpc[d] = "acquired"
        /\ acquires[d] = 1
        /\ acquirers = <<e>>

====
